---- MODULE Spec2Model ----
(***************************************************************************)
(* Model of SuggestionPopup (src/src/popup.ts): trigger detection with the *)
(* anti-reopen latch and the character-class cache, aggregation of the     *)
(* suggestion providers, acceptance of a suggestion, and the insertion-key *)
(* binding.                                                                *)
(***************************************************************************)
EXTENDS Integers, Sequences, FiniteSets, TLC

\* ------------------------------------------------------------------ bounds
\* longest line of text the editor holds when a trigger event arrives
MaxLineLen == 2
\* most candidates the providers return together for one trigger
MaxCandidates == 2
\* key registrations the controller makes (the constructor's included) before
\* the model stops rebinding
MaxRegistrations == 3
\* settings.maxLookBackDistance: characters the backward scan may examine
MaxLookBackDistance == 2

\* ------------------------------------------------------------ basic values
Undefined == "undefined"
NoSeparator == ""
NoPos == [line |-> -1, ch |-> -1]
Pos(l, c) == [line |-> l, ch |-> c]

\* characters of the editor buffer, with their code points
Chars == {"a", "B"}
Code(c) == CASE c = "a" -> 97 [] c = "B" -> 66 [] c = " " -> 32 [] c = "#" -> 35
             [] c = "~" -> 126 [] c = "b" -> 98 [] OTHER -> 0

\* the line the cursor is on in the modelled runs
Lines == {1}

RECURSIVE SeqsUpTo(_, _)
SeqsUpTo(S, n) ==
    IF n = 0 THEN {<<>>}
    ELSE LET shorter == SeqsUpTo(S, n - 1)
         IN  shorter \cup {Append(s, x) : s \in {t \in shorter : Len(t) = n - 1}, x \in S}

\* ------------------------------------------------- character-class patterns
\* settings.characterRegex values: the text placed between "[" and "]"
Patterns == {"a-z", "a-zA-Z", "z-a"}

\* the ranges a class pattern denotes, as <<low code point, high code point>>
ClassRanges(p) ==
    CASE p = "a-z"    -> {<<97, 122>>}
      [] p = "a-zA-Z" -> {<<97, 122>>, <<65, 90>>}
      [] p = "z-a"    -> {<<122, 97>>}
      [] OTHER        -> {}

\* new RegExp("[" + p + "]", "u") throws a SyntaxError on a range out of order
RegExpCompiles(p) == \A r \in ClassRanges(p) : r[1] <= r[2]

\* compiled.test(char) for a compiled class
RegExpTest(p, c) == \E r \in ClassRanges(p) : r[1] <= Code(c) /\ Code(c) <= r[2]

\* ------------------------------------------------------------------- state
VARIABLES
    justClosed,                    \* the anti-reopen latch
    separatorChar,                 \* separator stored by the last trigger detection
    characterRegex,                \* pattern string the cache compares with
    compiledCharacterRegex,        \* pattern the compiled matcher was built from
    insertionKeybindRegistration,  \* handle of the custom accept binding (0: none)
    disableSnippets,               \* legacy editor: snippets are not handed off
    settings,                      \* the CompletrSettings object
    blocksAllOtherProviders,       \* the static flag of each provider
    scopeKeys,                     \* the host scope's registered key handlers
    nextHandle,                    \* identity of the next object the scope creates
    context,                       \* this.context of the EditorSuggest
    popup,                         \* lifecycle state: Idle, Triggered, Suggesting
    suggestions,                   \* the list the popup shows
    doc,                           \* text of the cursor's line
    cursor,                        \* the editor's cursor
    triggerResult,                 \* what the last onTrigger call returned
    regexCalls,                    \* getCharacterRegex calls of the last onTrigger
    sinceAccept,                   \* trigger events since the last acceptance
    provided,                      \* what each provider answered in the last collection
    consulted,                     \* provider calls of the last collection, in order
    collectOutcome,                \* none, returned or threw
    accepted,                      \* the suggestion last accepted, with its span
    calls                          \* collaborator calls of the last acceptance, in order

vars == <<justClosed, separatorChar, characterRegex, compiledCharacterRegex,
          insertionKeybindRegistration, disableSnippets, settings,
          blocksAllOtherProviders, scopeKeys, nextHandle, context, popup,
          suggestions, doc, cursor, triggerResult, regexCalls, sinceAccept,
          provided, consulted, collectOutcome, accepted, calls>>

controllerVars == <<justClosed, separatorChar, characterRegex, compiledCharacterRegex>>
bindingVars == <<insertionKeybindRegistration, scopeKeys, nextHandle>>
configVars == <<disableSnippets, blocksAllOtherProviders>>
popupVars == <<context, popup, suggestions>>
editorVars == <<doc, cursor>>
collectVars == <<provided, consulted, collectOutcome>>
acceptVars == <<accepted, calls>>

\* ------------------------------------------------------ character-class cache
getCharacterRegexKeepingStale(cached, compiled, configured) ==
    IF cached # configured /\ RegExpCompiles(configured)
    THEN [threw |-> FALSE, compiled |-> configured, recompiled |-> TRUE]
    ELSE [threw |-> FALSE, compiled |-> compiled, recompiled |-> FALSE]

\* One call of getCharacterRegex: the matcher is rebuilt when the remembered
\* pattern string differs from the configured one; a malformed class throws.
getCharacterRegex(cached, compiled, configured) ==
    IF cached # configured
    THEN IF RegExpCompiles(configured)
         THEN [threw |-> FALSE, compiled |-> configured, recompiled |-> TRUE]
         ELSE [threw |-> TRUE, compiled |-> compiled, recompiled |-> TRUE]
    ELSE [threw |-> FALSE, compiled |-> compiled, recompiled |-> FALSE]

\* ------------------------------------------------------ word-boundary matcher
\* One step of the backward scan: position i of the line (1-based) is examined
\* unless the line start or the look-back limit is reached first.
RECURSIVE scanBackwards(_, _, _, _, _, _, _)
scanBackwards(text, i, examined, limit, cached, configured, acc) ==
    IF i < 1 \/ examined >= limit
    THEN acc
    ELSE LET r == getCharacterRegex(cached, acc.compiled, configured)
             logged == Append(acc.log, [configured |-> configured,
                                        previous |-> acc.compiled,
                                        recompiled |-> r.recompiled])
         IN  IF r.threw
             THEN [acc EXCEPT !.threw = TRUE, !.log = logged]
             ELSE IF RegExpTest(r.compiled, text[i])
                  THEN scanBackwards(text, i - 1, examined + 1, limit, cached, configured,
                           [acc EXCEPT !.query = <<text[i]>> \o @,
                                       !.compiled = r.compiled,
                                       !.log = logged])
                  ELSE [acc EXCEPT !.separatorChar = text[i],
                                   !.compiled = r.compiled,
                                   !.log = logged]

matchWordBackwards(text, cur, limit, cached, compiled, configured) ==
    scanBackwards(text, cur.ch, 0, limit, cached, configured,
                  [query |-> <<>>, separatorChar |-> NoSeparator,
                   compiled |-> compiled, log |-> <<>>, threw |-> FALSE])

\* -------------------------------------------------------------- key bindings
\* insertion keys the settings offer
InsertionKeys == {"Enter", "Tab"}

\* the handlers the host's suggest scope holds before the controller is built
HostScopeKeys ==
    << [id |-> 1, key |-> "ArrowUp", action |-> "moveUp"],
       [id |-> 2, key |-> "Enter",   action |-> "hostAccept"],
       [id |-> 3, key |-> "Escape",  action |-> "close"] >>

NoRegistration == 0

\* scope.keys.find(k => k.key === key): the first handler of that key, if any
scopeFind(keys, key) ==
    IF \E i \in 1..Len(keys) : keys[i].key = key
    THEN keys[CHOOSE i \in 1..Len(keys) :
                 /\ keys[i].key = key
                 /\ \A j \in 1..(i - 1) : keys[j].key # key].id
    ELSE NoRegistration

\* scope.unregister(handler): the handler object is removed from the scope
scopeUnregister(keys, handle) == SelectSeq(keys, LAMBDA k : k.id # handle)

\* scope.register([], key, callback): a new handler object is appended
scopeRegister(keys, handle, key) ==
    Append(keys, [id |-> handle, key |-> key, action |-> "useSelectedItem"])

disableInsertionKeyNever(keys, registration) == keys

\* disableInsertionKey: the stored registration, when there is one, is unregistered
disableInsertionKey(keys, registration) ==
    IF registration # NoRegistration
    THEN scopeUnregister(keys, registration)
    ELSE keys

evictNothing(keys) == keys

\* the scope the constructor leaves: the default Enter handler is removed first
evictDefaultEnter(keys) == scopeUnregister(keys, scopeFind(keys, "Enter"))

\* -------------------------------------------------------------- suggestions
\* A suggestion is a plain string or a structured record; overrideStart is NoPos
\* when the record carries none.
Plain(text) == [plain |-> TRUE, text |-> text, overrideStart |-> NoPos]
Rich(text, override) == [plain |-> FALSE, text |-> text, overrideStart |-> override]
NoSuggestion == Plain(<<>>)

\* getSuggestionReplacement: the string itself, or the record's replacement
getSuggestionReplacement(value) == value.text

\* typeof value !== "string" && value.overrideStart
hasOverrideStart(value) == ~value.plain /\ value.overrideStart # NoPos

\* the provider list, in priority order
PROVIDERS == <<"FrontMatter", "Latex", "FileScanner", "WordList">>
ProviderIds == 1..Len(PROVIDERS)

NoContext == [start |-> NoPos, end |-> NoPos, query |-> <<>>]
NoTrigger == [kind |-> "none", start |-> NoPos, end |-> NoPos, query |-> <<>>]
NoAccept == [happened |-> FALSE, value |-> NoSuggestion, contextStart |-> NoPos,
             contextEnd |-> NoPos]
NoOutputs == [i \in ProviderIds |-> [threw |-> FALSE, list |-> <<>>]]

\* --------------------------------------------------------------------- init
\* The state the constructor leaves, for each configuration in the given sets.
\* justClosed, separatorChar, characterRegex and compiledCharacterRegex are not
\* assigned by the constructor: justClosed reads as false, the others as undefined.
InitWith(keys, patterns, legacy, flags) ==
    /\ justClosed = FALSE
    /\ separatorChar = Undefined
    /\ characterRegex = Undefined
    /\ compiledCharacterRegex = Undefined
    /\ disableSnippets \in legacy
    /\ blocksAllOtherProviders \in flags
    /\ \E key \in keys, pattern \in patterns :
          /\ settings = [insertionKey |-> key, characterRegex |-> pattern,
                         maxLookBackDistance |-> MaxLookBackDistance]
          /\ nextHandle = Len(HostScopeKeys) + 2
          /\ insertionKeybindRegistration = Len(HostScopeKeys) + 1
          /\ scopeKeys = scopeRegister(
                             disableInsertionKey(evictDefaultEnter(HostScopeKeys),
                                                 NoRegistration),
                             Len(HostScopeKeys) + 1, key)
    /\ context = NoContext
    /\ popup = "Idle"
    /\ suggestions = <<>>
    /\ doc = <<>>
    /\ cursor = Pos(1, 0)
    /\ triggerResult = NoTrigger
    /\ regexCalls = <<>>
    /\ sinceAccept = [events |-> 3, kind |-> "none"]
    /\ provided = NoOutputs
    /\ consulted = <<>>
    /\ collectOutcome = "none"
    /\ accepted = NoAccept
    /\ calls = <<>>

\* --------------------------------------------------------- trigger detection
latchStaysSet == TRUE

\* the latch value onTrigger leaves when it found the latch set
latchAfterSuppression == FALSE

triggerStartAtCursor(cur, query) == cur

\* the start position onTrigger returns: the cursor moved back by the query length
triggerStart(cur, query) == [cur EXCEPT !.ch = cur.ch - Len(query)]

returnsInfoForWords(cur, query) ==
    IF query = <<>>
    THEN [kind |-> "null", start |-> NoPos, end |-> NoPos, query |-> <<>>]
    ELSE [kind |-> "info", start |-> triggerStart(cur, query), end |-> cur,
          query |-> query]

\* the value onTrigger returns once the matcher has returned: a trigger info for
\* every query, the empty one included
triggerInfo(cur, query) ==
    [kind |-> "info", start |-> triggerStart(cur, query), end |-> cur,
     query |-> query]

suppressedNever(latch) == FALSE

\* the test onTrigger makes first: the event is suppressed when the latch is set
suppressed(latch) == latch

\* trigger events counted from the last acceptance (3: not counting)
NotCounting == [events |-> 3, kind |-> "none"]

countTrigger(since) ==
    IF since.events < 2 THEN [since EXCEPT !.events = @ + 1] ELSE NotCounting

\* onTrigger(cursor, editor, file) with the editor holding `text` on the cursor's
\* line, followed by what the host does with the returned value: null closes the
\* popup, a trigger info becomes this.context.
onTrigger(cur, text) ==
    /\ doc' = text
    /\ cursor' = cur
    /\ sinceAccept' = countTrigger(sinceAccept)
    /\ provided' = NoOutputs
    /\ consulted' = <<>>
    /\ collectOutcome' = "none"
    /\ accepted' = NoAccept
    /\ calls' = <<>>
    /\ UNCHANGED <<characterRegex, bindingVars, configVars, settings>>
    /\ IF suppressed(justClosed)
       THEN /\ justClosed' = latchAfterSuppression
            /\ triggerResult' = [NoTrigger EXCEPT !.kind = "null"]
            /\ regexCalls' = <<>>
            /\ context' = NoContext
            /\ popup' = "Idle"
            /\ suggestions' = <<>>
            /\ UNCHANGED <<separatorChar, compiledCharacterRegex>>
       ELSE LET m == matchWordBackwards(text, cur, settings.maxLookBackDistance,
                                        characterRegex, compiledCharacterRegex,
                                        settings.characterRegex)
            IN  /\ regexCalls' = m.log
                /\ compiledCharacterRegex' = m.compiled
                /\ UNCHANGED justClosed
                /\ IF m.threw
                   THEN /\ triggerResult' = [NoTrigger EXCEPT !.kind = "threw"]
                        /\ UNCHANGED <<separatorChar, popupVars>>
                   ELSE LET info == triggerInfo(cur, m.query)
                        IN  /\ separatorChar' = m.separatorChar
                            /\ triggerResult' = info
                            /\ context' = IF info.kind = "info"
                                          THEN [start |-> info.start,
                                                end |-> info.end,
                                                query |-> info.query]
                                          ELSE NoContext
                            /\ popup' = IF info.kind = "info"
                                        THEN "Triggered"
                                        ELSE "Idle"
                            /\ suggestions' = <<>>

\* preventNextTrigger(): sets the latch. A call between the first and the second
\* trigger event after an acceptance ends the count of those events.
preventNextTrigger ==
    /\ justClosed' = TRUE
    /\ sinceAccept' = IF sinceAccept.events = 1 THEN NotCounting ELSE sinceAccept
    /\ UNCHANGED <<separatorChar, characterRegex, compiledCharacterRegex, bindingVars,
                   configVars, settings, popupVars, editorVars, triggerResult,
                   regexCalls, collectVars, acceptVars>>

\* the settings tab stores a new character class in settings.characterRegex
changeCharacterRegex(pattern) ==
    /\ pattern # settings.characterRegex
    /\ settings' = [settings EXCEPT !.characterRegex = pattern]
    /\ UNCHANGED <<controllerVars, bindingVars, configVars, popupVars, editorVars,
                   triggerResult, regexCalls, sinceAccept, collectVars, acceptVars>>

\* the settings tab stores a new look-back distance in settings.maxLookBackDistance
changeLookBack(distance) ==
    /\ distance # settings.maxLookBackDistance
    /\ settings' = [settings EXCEPT !.maxLookBackDistance = distance]
    /\ UNCHANGED <<controllerVars, bindingVars, configVars, popupVars, editorVars,
                   triggerResult, regexCalls, sinceAccept, collectVars, acceptVars>>

\* --------------------------------------------------------------- aggregation
appendSuggestionsInFront(acc, list) == list \o acc

\* suggestions = [...suggestions, ...provider.getSuggestions(...)]
appendSuggestions(acc, list) == acc \o list

blockingWithoutFlag(flag, acc) == Len(acc) > 0

blockingNever(flag, acc) == FALSE

\* provider.blocksAllOtherProviders && suggestions.length > 0
blockingFires(flag, acc) == flag /\ Len(acc) > 0

\* suggestions.forEach(...): every structured suggestion that carries an
\* overrideStart overwrites this.context.start, so the last one stays
RECURSIVE applyOverrides(_, _)
applyOverrides(list, start) ==
    IF list = <<>>
    THEN start
    ELSE applyOverrides(Tail(list),
                        IF hasOverrideStart(Head(list))
                        THEN Head(list).overrideStart
                        ELSE start)

providerInputWithoutSeparator(i, start, ctx, sep) ==
    [provider |-> i, start |-> start, end |-> ctx.end, query |-> ctx.query,
     separatorChar |-> Undefined]

\* the context provider i is called with: this.context spread, with the stored
\* separator added
providerInput(i, start, ctx, sep) ==
    [provider |-> i, start |-> start, end |-> ctx.end, query |-> ctx.query,
     separatorChar |-> sep]

\* The loop over PROVIDERS from provider i on. acc holds the accumulated list,
\* this.context.start, and the calls made so far with the context each received.
\* A provider that throws ends the loop with the exception.
RECURSIVE collectFrom(_, _, _, _, _, _)
collectFrom(i, outs, flags, ctx, sep, acc) ==
    IF i > Len(PROVIDERS)
    THEN acc
    ELSE LET called == Append(acc.consulted, providerInput(i, acc.start, ctx, sep))
         IN  IF outs[i].threw
             THEN [acc EXCEPT !.consulted = called, !.outcome = "threw"]
             ELSE LET all == appendSuggestions(acc.suggestions, outs[i].list)
                  IN  IF blockingFires(flags[i], all)
                      THEN [suggestions |-> all,
                            start |-> applyOverrides(all, acc.start),
                            consulted |-> called,
                            outcome |-> "returned"]
                      ELSE collectFrom(i + 1, outs, flags, ctx, sep,
                                       [acc EXCEPT !.suggestions = all,
                                                   !.consulted = called])

\* the answers of the providers that were called
answersOf(outs, called) ==
    [i \in ProviderIds |->
        IF \E k \in 1..Len(called) : called[k].provider = i
        THEN outs[i]
        ELSE [threw |-> FALSE, list |-> <<>>]]

\* getSuggestions(context) with provider i answering outs[i], followed by what the
\* host does with the result: a non-empty list is shown, an empty one closes.
getSuggestions(outs) ==
    /\ popup = "Triggered"
    /\ LET r == collectFrom(1, outs, blocksAllOtherProviders, context, separatorChar,
                            [suggestions |-> <<>>, start |-> context.start,
                             consulted |-> <<>>, outcome |-> "returned"])
       IN  /\ provided' = answersOf(outs, r.consulted)
           /\ consulted' = r.consulted
           /\ collectOutcome' = r.outcome
           /\ IF r.outcome = "threw"
              THEN /\ popup' = "Idle"
                   /\ UNCHANGED <<context, suggestions>>
              ELSE IF r.suggestions # <<>>
                   THEN /\ popup' = "Suggesting"
                        /\ suggestions' = r.suggestions
                        /\ context' = [context EXCEPT !.start = r.start]
                   ELSE /\ popup' = "Idle"
                        /\ suggestions' = <<>>
                        /\ context' = NoContext
    /\ sinceAccept' = NotCounting
    /\ UNCHANGED <<controllerVars, bindingVars, configVars, settings, editorVars,
                   triggerResult, regexCalls, acceptVars>>

\* ---------------------------------------------------------------- acceptance
\* the snippet-placeholder markers
Markers == {"#", "~"}

containsChar(text, c) == \E i \in 1..Len(text) : text[i] = c

\* replacement.contains("#") || replacement.contains("~")
isSnippet(replacement) == \E c \in Markers : containsChar(replacement, c)

insertionStartOfContext(value, contextStart) == contextStart

\* typeof value !== "string" && value.overrideStart ? value.overrideStart
\*                                                  : this.context.start
insertionStart(value, contextStart) ==
    IF hasOverrideStart(value) THEN value.overrideStart ELSE contextStart

cursorAtLength(start, replacement) == [start EXCEPT !.ch = Len(replacement)]

\* {...start, ch: start.ch + replacement.length}
cursorAfter(start, replacement) == [start EXCEPT !.ch = start.ch + Len(replacement)]

\* editor.replaceRange(replacement, from, to) on the cursor's line
replaceRange(text, replacement, from, to) ==
    SubSeq(text, 1, from.ch) \o replacement \o SubSeq(text, to.ch + 1, Len(text))

Call(op, text, from, to) == [op |-> op, text |-> text, from |-> from, to |-> to]

dispatchAlways(replacement, start, legacy) ==
    IF isSnippet(replacement)
    THEN <<Call("handleSnippet", replacement, start, NoPos)>>
    ELSE <<Call("setCursor", <<>>, cursorAfter(start, replacement), NoPos)>>

\* what selectSuggestion does after the replacement: the snippet hand-off, the
\* console notice or the cursor move
dispatch(replacement, start, legacy) ==
    IF isSnippet(replacement)
    THEN IF ~legacy
         THEN <<Call("handleSnippet", replacement, start, NoPos)>>
         ELSE <<Call("log", <<>>, NoPos, NoPos)>>
    ELSE <<Call("setCursor", <<>>, cursorAfter(start, replacement), NoPos)>>

\* the calls selectSuggestion makes on its collaborators, in order
selectCalls(value, ctx, legacy) ==
    LET replacement == getSuggestionReplacement(value)
        start == insertionStart(value, ctx.start)
    IN  <<Call("replaceRange", replacement, start, ctx.end)>>
        \o dispatch(replacement, start, legacy)
        \o <<Call("close", <<>>, NoPos, NoPos)>>

acceptKind(value, legacy) ==
    IF ~isSnippet(getSuggestionReplacement(value)) THEN "plain"
    ELSE IF legacy THEN "skipped" ELSE "snippet"

\* selectSuggestion(value, evt) for the k-th suggestion of the shown list
selectSuggestion(k) ==
    /\ popup = "Suggesting"
    /\ k \in 1..Len(suggestions)
    /\ LET value == suggestions[k]
           made == selectCalls(value, context, disableSnippets)
       IN  /\ calls' = made
           /\ doc' = replaceRange(doc, made[1].text, made[1].from, made[1].to)
           /\ cursor' = IF made[2].op = "setCursor" THEN made[2].from ELSE cursor
           /\ accepted' = [happened |-> TRUE, value |-> value,
                           contextStart |-> context.start, contextEnd |-> context.end]
           /\ sinceAccept' = [events |-> 0, kind |-> acceptKind(value, disableSnippets)]
    /\ context' = NoContext
    /\ popup' = "Idle"
    /\ suggestions' = <<>>
    /\ justClosed' = TRUE
    /\ provided' = NoOutputs
    /\ consulted' = <<>>
    /\ collectOutcome' = "none"
    /\ UNCHANGED <<separatorChar, characterRegex, compiledCharacterRegex, bindingVars,
                   configVars, settings, triggerResult, regexCalls>>

latchSetByClose(latch) == TRUE

\* the latch after close(): SuggestionPopup does not override close, and
\* selectSuggestion sets the latch itself, after its call of close
latchAfterClose(latch) == latch

\* the host closes the popup on a cancel action
dismiss ==
    /\ popup = "Suggesting"
    /\ justClosed' = latchAfterClose(justClosed)
    /\ context' = NoContext
    /\ popup' = "Idle"
    /\ suggestions' = <<>>
    /\ provided' = NoOutputs
    /\ consulted' = <<>>
    /\ collectOutcome' = "none"
    /\ UNCHANGED <<separatorChar, characterRegex, compiledCharacterRegex, bindingVars,
                   configVars, settings, editorVars, triggerResult, regexCalls,
                   sinceAccept, acceptVars>>

\* ------------------------------------------------------------- insertion key
\* setInsertionKey(key), called when the insertion key setting changes
setInsertionKey(key) ==
    /\ nextHandle <= Len(HostScopeKeys) + MaxRegistrations
    /\ scopeKeys' = scopeRegister(
                        disableInsertionKey(scopeKeys, insertionKeybindRegistration),
                        nextHandle, key)
    /\ insertionKeybindRegistration' = nextHandle
    /\ nextHandle' = nextHandle + 1
    /\ settings' = [settings EXCEPT !.insertionKey = key]
    /\ UNCHANGED <<controllerVars, configVars, popupVars, editorVars, triggerResult,
                   regexCalls, sinceAccept, collectVars, acceptVars>>

\* ------------------------------------------------------------------- inputs
\* the editor at a trigger event: a cursor and the text of its line
Docs == SeqsUpTo(Chars, MaxLineLen)
EditorEvents == {<<Pos(l, c), t>> : l \in Lines, c \in 0..MaxLineLen, t \in Docs}
TriggerEvents == {e \in EditorEvents : e[1].ch <= Len(e[2])}

\* typing at the end of the line
TypingEvents == {e \in TriggerEvents : e[1].ch = Len(e[2])}

\* typing a word at the start of the line
WordEvents == {e \in TypingEvents : \A i \in 1..Len(e[2]) : e[2][i] = "a"}

\* typing a word at the start of the line or after one other character
PhraseEvents == {e \in TypingEvents : \A i \in 2..Len(e[2]) : e[2][i] = "a"}

\* replacement texts: a word, and two snippets
Word == <<"a", "b">>
HashSnippet == <<"#", "b">>
TildeSnippet == <<"~">>

\* override starts a provider may give: on the line of the trigger, at its
\* beginning or at the trigger's end
OverrideStarts(ctx) == {Pos(ctx.end.line, 0), ctx.end}

\* candidates for the aggregation runs: told apart by kind, text and override
CollectCandidates(ctx) ==
    {Plain(Word), Rich(HashSnippet, NoPos)}
    \cup {Rich(TildeSnippet, o) : o \in OverrideStarts(ctx)}

\* candidates for the acceptance runs
AcceptCandidates(ctx) ==
    {Plain(Word), Rich(HashSnippet, NoPos), Rich(TildeSnippet, Pos(ctx.end.line, 0)),
     Rich(Word, ctx.end)}

Threw == [threw |-> TRUE, list |-> <<>>]
Returned(list) == [threw |-> FALSE, list |-> list]

\* the answers of n providers that return at most `budget` candidates together,
\* each answer a returned list or an exception; no provider answers after one
\* has thrown, since none is called
RECURSIVE Answers(_, _, _, _)
Answers(n, budget, candidates, mayThrow) ==
    IF n = 0
    THEN {<<>>}
    ELSE LET lists == SeqsUpTo(candidates, budget)
             silent == [i \in 1..(n - 1) |-> Returned(<<>>)]
         IN  UNION {{<<Returned(l)>> \o rest :
                        rest \in Answers(n - 1, budget - Len(l), candidates,
                                         mayThrow)} : l \in lists}
             \cup (IF mayThrow THEN {<<Threw>> \o silent} ELSE {})

AllFlags == [ProviderIds -> BOOLEAN]
NoneBlocks == [i \in ProviderIds |-> FALSE]
SomeFlags == {NoneBlocks, [NoneBlocks EXCEPT ![2] = TRUE]}

\* ------------------------------------------------------------ specifications
TriggerTyped == \E e \in TypingEvents : onTrigger(e[1], e[2])

TriggerWord == \E e \in WordEvents : onTrigger(e[1], e[2])

TriggerPhrase == \E e \in PhraseEvents : onTrigger(e[1], e[2])

TriggerAny == \E e \in TriggerEvents : onTrigger(e[1], e[2])

ChangePattern == \E p \in Patterns : changeCharacterRegex(p)

ChangeLookBack == \E distance \in 0..MaxLookBackDistance : changeLookBack(distance)

Rebind == \E key \in InsertionKeys : setInsertionKey(key)

\* Aggregation: every flag assignment, providers that return or throw.
InitCollect == InitWith({"Enter"}, {"a-z"}, {FALSE}, AllFlags)

Collect ==
    /\ popup = "Triggered"
    /\ \E outs \in Answers(Len(PROVIDERS), MaxCandidates, CollectCandidates(context),
                           TRUE) :
          getSuggestions(outs)

NextCollect == TriggerWord \/ Collect \/ dismiss

SpecCollect == InitCollect /\ [][NextCollect]_vars

\* Trigger detection and the character-class cache.
InitTrigger == InitWith({"Enter"}, Patterns, {FALSE}, {NoneBlocks})

NextTrigger == TriggerAny \/ ChangePattern \/ ChangeLookBack \/ preventNextTrigger

SpecTrigger == InitTrigger /\ [][NextTrigger]_vars

\* The insertion key, rebound while the controller is in use.
InitKeys == InitWith(InsertionKeys, {"a-z"}, {FALSE}, {NoneBlocks})

NextKeys == Rebind \/ TriggerTyped \/ ChangePattern \/ preventNextTrigger

SpecKeys == InitKeys /\ [][NextKeys]_vars

\* The popup lifecycle: trigger, collection, acceptance or dismissal.
Init == InitWith({"Enter"}, {"a-zA-Z"}, BOOLEAN, SomeFlags)

CollectAccept ==
    /\ popup = "Triggered"
    /\ \E outs \in Answers(Len(PROVIDERS), MaxCandidates, AcceptCandidates(context),
                           FALSE) :
          getSuggestions(outs)

Select == \E k \in 1..Len(suggestions) : selectSuggestion(k)

Next == TriggerPhrase \/ CollectAccept \/ Select \/ dismiss \/ preventNextTrigger

Spec == Init /\ [][Next]_vars

\* The latch and the separator: acceptance, preventNextTrigger and dismissal
\* between trigger events typed behind words and separators.
InitLatch == InitWith({"Enter"}, {"a-z"}, {FALSE}, SomeFlags)

LatchCandidates(ctx) == {Plain(Word), Rich(TildeSnippet, Pos(ctx.end.line, 0))}

CollectLatch ==
    /\ popup = "Triggered"
    /\ \E outs \in Answers(Len(PROVIDERS), MaxCandidates, LatchCandidates(context),
                           FALSE) :
          getSuggestions(outs)

NextLatch ==
    TriggerTyped \/ CollectLatch \/ Select \/ dismiss \/ preventNextTrigger

SpecLatch == InitLatch /\ [][NextLatch]_vars


\* ------------------------------------------------------------------- claims
\* the answer provider i gave in the last collection
answerOf(k) == provided[consulted[k].provider]

\* the lists returned by the providers called, joined in the order of the calls
RECURSIVE joinedAnswers(_)
joinedAnswers(k) ==
    IF k = 0 THEN <<>> ELSE joinedAnswers(k - 1) \o answerOf(k).list

hasMarker(text) == \E i \in 1..Len(text) : text[i] = "#" \/ text[i] = "~"

\* C1: when a provider flagged blocksAllOtherProviders returns at least one
\* candidate, it is the last provider called for that trigger: no provider after
\* it in the priority order is invoked.
C1_BlockingStopsCollection ==
    \A k \in 1..Len(consulted) :
        (/\ blocksAllOtherProviders[consulted[k].provider]
         /\ ~answerOf(k).threw
         /\ answerOf(k).list # <<>>)
        => /\ k = Len(consulted)
           /\ \A m \in 1..Len(consulted) :
                 consulted[m].provider <= consulted[k].provider

\* a flagged provider other than the last of the list returned candidates after an
\* unflagged one had been called, and the collection ended with it
C1_Witness ==
    /\ collectOutcome = "returned"
    /\ Len(consulted) = 2
    /\ blocksAllOtherProviders[2]
    /\ answerOf(2).list # <<>>
    /\ answerOf(1).list = <<>>

\* C2: a collection that returns has called the providers in priority order, each
\* once, from the first on; it stops before the end of the list only at a flagged
\* provider with a non-empty accumulated list, so with no provider flagged all are
\* called; and the result is the lists returned by the providers called, joined
\* in the order of the calls.
C2_ResultIsConcatenation ==
    collectOutcome = "returned" =>
        /\ \A k \in 1..Len(consulted) : consulted[k].provider = k
        /\ Len(consulted) >= 1
        /\ Len(consulted) < Len(PROVIDERS) =>
              /\ blocksAllOtherProviders[Len(consulted)]
              /\ suggestions # <<>>
        /\ (\A i \in ProviderIds : ~blocksAllOtherProviders[i]) =>
              Len(consulted) = Len(PROVIDERS)
        /\ suggestions = joinedAnswers(Len(consulted))

\* no provider is flagged, all four were called, and two of them returned
\* different candidates
C2_Witness ==
    /\ collectOutcome = "returned"
    /\ \A i \in ProviderIds : ~blocksAllOtherProviders[i]
    /\ Len(consulted) = Len(PROVIDERS)
    /\ Len(suggestions) = 2
    /\ suggestions[1] # suggestions[2]
    /\ provided[2].list # <<>>
    /\ provided[4].list # <<>>

\* C7: a provider that throws contributes nothing and the collection goes on: the
\* collection returns, and a provider that threw is followed by the next provider
\* of the list.
C7_SourceIsolation ==
    /\ collectOutcome # "threw"
    /\ \A k \in 1..Len(consulted) :
          answerOf(k).threw =>
              k < Len(consulted) \/ consulted[k].provider = Len(PROVIDERS)

\* C4: a call of getCharacterRegex compiles exactly when the configured pattern
\* differs from the pattern of the previous compilation.
C4_RecompileOnlyOnChange ==
    \A k \in 1..Len(regexCalls) :
        regexCalls[k].recompiled <=> regexCalls[k].configured # regexCalls[k].previous


\* C3: an acceptance leaves the latch set and the popup closed; the first trigger
\* event after it returns no trigger info, shows no popup and clears the latch;
\* the trigger event after that one is not suppressed and reaches the matcher.
C3_AntiReopen ==
    /\ sinceAccept.events = 0 => justClosed /\ popup = "Idle"
    /\ sinceAccept.events = 1 =>
          /\ triggerResult.kind = "null"
          /\ popup = "Idle"
          /\ context = NoContext
          /\ ~justClosed
    /\ sinceAccept.events = 2 => triggerResult.kind \in {"info", "threw"}

\* the second trigger event after the acceptance of a snippet that was not handed
\* off returned a trigger info
C3_Witness ==
    /\ sinceAccept = [events |-> 2, kind |-> "skipped"]
    /\ triggerResult.kind = "info"
    /\ popup = "Triggered"

\* C5: accepting a candidate without overrideStart replaces the span from the
\* start computed by trigger detection to the trigger's end.
C5_PlainAcceptReplacesTriggerSpan ==
    (accepted.happened /\ ~hasOverrideStart(accepted.value)) =>
        calls[1] = Call("replaceRange", accepted.value.text,
                        triggerResult.start, triggerResult.end)

\* C6: accepting a structured candidate with overrideStart S replaces the span
\* from S to the trigger context's end with the candidate's replacement, and the
\* line then holds the replacement from S on.
C6_OverrideAcceptReplacesFromOverride ==
    (accepted.happened /\ ~accepted.value.plain /\ accepted.value.overrideStart # NoPos) =>
        /\ calls[1] = Call("replaceRange", accepted.value.text,
                           accepted.value.overrideStart, accepted.contextEnd)
        /\ accepted.contextEnd = triggerResult.end
        /\ SubSeq(doc, accepted.value.overrideStart.ch + 1,
                  accepted.value.overrideStart.ch + Len(accepted.value.text))
              = accepted.value.text

\* the accepted override differs from the context's start, and the shown list
\* held another candidate
C6_Witness ==
    /\ accepted.happened
    /\ ~accepted.value.plain
    /\ accepted.value.overrideStart # NoPos
    /\ accepted.value.overrideStart # accepted.contextStart
    /\ accepted.value.overrideStart # triggerResult.start

\* the start the claims name the actual insertion start
claimedStart ==
    IF ~accepted.value.plain /\ accepted.value.overrideStart # NoPos
    THEN accepted.value.overrideStart
    ELSE accepted.contextStart

snippetCalls == {k \in 1..Len(calls) : calls[k].op = "handleSnippet"}

\* C9: an acceptance first replaces the range; a replacement with a marker is
\* then handed to the snippet engine once, with the replacement and the actual
\* insertion start, when snippets are enabled, and only logged when they are
\* disabled, the inserted text staying in the line; without a marker the snippet
\* engine is not called.
C9_SnippetDispatch ==
    accepted.happened =>
        /\ calls[1] = Call("replaceRange", accepted.value.text, claimedStart,
                           accepted.contextEnd)
        /\ \A k \in 2..Len(calls) : calls[k].op # "replaceRange"
        /\ (hasMarker(accepted.value.text) /\ ~disableSnippets) =>
              /\ snippetCalls = {2}
              /\ calls[2] = Call("handleSnippet", accepted.value.text, claimedStart,
                                 NoPos)
        /\ (hasMarker(accepted.value.text) /\ disableSnippets) =>
              /\ snippetCalls = {}
              /\ calls[2].op = "log"
              /\ SubSeq(doc, claimedStart.ch + 1,
                        claimedStart.ch + Len(accepted.value.text))
                    = accepted.value.text
        /\ ~hasMarker(accepted.value.text) => snippetCalls = {}

\* a snippet with an override start was accepted while snippets are disabled
C9_Witness ==
    /\ accepted.happened
    /\ disableSnippets
    /\ hasMarker(accepted.value.text)
    /\ accepted.value.overrideStart # NoPos
    /\ calls[2].op = "log"

cursorCalls == {k \in 1..Len(calls) : calls[k].op = "setCursor"}

\* C10: after a replacement without a marker the cursor is set once, to the line
\* of the actual insertion start and the column start + replacement length, which
\* is the end of the inserted text; after a replacement with a marker the
\* controller does not set the cursor.
C10_CursorPlacement ==
    accepted.happened =>
        IF hasMarker(accepted.value.text)
        THEN cursorCalls = {}
        ELSE /\ cursorCalls = {2}
             /\ calls[2].from = [line |-> claimedStart.line,
                                 ch |-> claimedStart.ch + Len(accepted.value.text)]
             /\ cursor = calls[2].from
             /\ SubSeq(doc, claimedStart.ch + 1, cursor.ch) = accepted.value.text

\* a word was accepted at an insertion start that is not the line start
C10_Witness ==
    /\ accepted.happened
    /\ ~hasMarker(accepted.value.text)
    /\ claimedStart.ch > 0
    /\ cursor.ch = claimedStart.ch + Len(accepted.value.text)

customBindings == {i \in 1..Len(scopeKeys) : scopeKeys[i].action = "useSelectedItem"}

\* C8: the scope holds exactly one binding that accepts a suggestion; it is bound
\* to the key of the most recent setInsertionKey call, and the stored registration
\* is its handle.
C8_SingleAcceptBinding ==
    /\ Cardinality(customBindings) = 1
    /\ \A i \in customBindings :
          /\ scopeKeys[i].key = settings.insertionKey
          /\ scopeKeys[i].id = insertionKeybindRegistration

\* the key was rebound twice after construction, last from Enter's binding to Tab
C8_Witness ==
    /\ insertionKeybindRegistration = Len(HostScopeKeys) + 3
    /\ settings.insertionKey = "Tab"
    /\ \A i \in 1..Len(scopeKeys) : scopeKeys[i].key # "Enter"

\* a step of onTrigger: a trigger event with the cursor and the line the step
\* leaves in the editor
triggerStep == onTrigger(cursor', doc')

\* the text of the line between two columns
textBetween(text, from, to) == SubSeq(text, from + 1, to)

\* C11 as stated: with the latch clear, trigger detection returns a trigger
\* context only for a non-empty query; an empty query leaves the controller idle
\* with no context.
C11_ContextOnlyForNonEmptyQuery ==
    triggerResult.kind = "info" =>
        triggerResult.query # <<>>

\* C11 amended: with the latch clear, every trigger event where the character
\* class compiles returns a trigger context, the empty query included: its query
\* is the text between the returned start and the cursor, and the controller
\* moves to Triggered with that context. No context is returned only when the
\* character class fails to compile.
C11_ContextForEveryQuery ==
    [][(~justClosed /\ triggerStep) =>
              /\ triggerResult'.kind \in {"info", "threw"}
              /\ triggerResult'.kind = "threw" =>
                     ~RegExpCompiles(settings.characterRegex)
              /\ triggerResult'.kind = "info" =>
                     /\ triggerResult'.query =
                            textBetween(doc', triggerResult'.start.ch, cursor'.ch)
                     /\ popup' = "Triggered"
                     /\ context' = [start |-> triggerResult'.start,
                                    end |-> cursor',
                                    query |-> triggerResult'.query]]_vars

\* a trigger context with an empty query, the cursor behind a separator
C11_Witness ==
    /\ triggerResult.kind = "info"
    /\ triggerResult.query = <<>>
    /\ cursor.ch > 0
    /\ popup = "Triggered"
    /\ context = [start |-> cursor, end |-> cursor, query |-> <<>>]

\* the popup was dismissed after the last trigger event: it is closed, although
\* that event returned a context and no acceptance and no empty collection
\* followed it
dismissed ==
    /\ popup = "Idle"
    /\ triggerResult.kind = "info"
    /\ collectOutcome = "none"
    /\ ~accepted.happened

\* C12: a dismissal while Suggesting changes neither the buffer nor the cursor,
\* makes no editor call and leaves the latch as it was; so the trigger event
\* that follows a dismissal with the latch clear is not suppressed.
C12_DismissalIsInert ==
    [][/\ (popup = "Suggesting" /\ dismiss) =>
              /\ doc' = doc
              /\ cursor' = cursor
              /\ calls' = calls
              /\ justClosed' = justClosed
              /\ dismissed'
       /\ (dismissed /\ ~justClosed /\ triggerStep) =>
                  triggerResult'.kind # "null"]_vars

\* the popup was dismissed with the latch clear, the line and the cursor as the
\* trigger event left them
C12_Witness ==
    /\ popup = "Idle"
    /\ triggerResult.kind = "info"
    /\ collectOutcome = "none"
    /\ ~accepted.happened
    /\ ~justClosed
    /\ suggestions = <<>>
    /\ doc # <<>>

\* the configured character class does not compile
malformed == ~RegExpCompiles(settings.characterRegex)

\* one failed compilation and nothing else: no character was tested, the matcher
\* compiled earlier was neither replaced nor used
failedAtCompile(log, before, after) ==
    /\ after = before
    /\ log = <<[configured |-> settings.characterRegex, previous |-> before,
                recompiled |-> TRUE]>>

\* C13 as stated: while the configured character class is malformed, every
\* trigger event fails with the compile error, yields no context, uses no matcher
\* compiled earlier and leaves the stored separator and the latch unchanged.
C13_MalformedAlwaysFails ==
    [][(malformed /\ triggerStep) =>
              /\ triggerResult'.kind = "threw"
              /\ failedAtCompile(regexCalls', compiledCharacterRegex,
                                 compiledCharacterRegex')
              /\ separatorChar' = separatorChar
              /\ justClosed' = justClosed]_vars

\* C13 amended: while the configured character class is malformed, a trigger
\* event that is not suppressed by the latch and whose scan examines a
\* character (cursor behind the line start, look-back distance above zero)
\* fails with the compile error: no context, no use of a matcher compiled
\* earlier, separator, latch and popup unchanged. A suppressed event clears the
\* latch without compiling; an event whose scan examines nothing returns a
\* context with an empty query without compiling.
C13_MalformedFailsWhenTested ==
    [][(malformed /\ triggerStep) =>
              IF justClosed
              THEN /\ triggerResult'.kind = "null"
                   /\ regexCalls' = <<>>
                   /\ ~justClosed'
                   /\ separatorChar' = separatorChar
                   /\ compiledCharacterRegex' = compiledCharacterRegex
              ELSE IF cursor'.ch > 0 /\ settings.maxLookBackDistance > 0
                   THEN /\ triggerResult'.kind = "threw"
                        /\ failedAtCompile(regexCalls', compiledCharacterRegex,
                                           compiledCharacterRegex')
                        /\ separatorChar' = separatorChar
                        /\ justClosed' = justClosed
                        /\ UNCHANGED popupVars
                   ELSE /\ triggerResult'.kind = "info"
                        /\ triggerResult'.query = <<>>
                        /\ regexCalls' = <<>>
                        /\ compiledCharacterRegex' = compiledCharacterRegex]_vars

\* a trigger event failed at compile time while an earlier matcher was at hand
C13_Witness ==
    /\ malformed
    /\ triggerResult.kind = "threw"
    /\ compiledCharacterRegex # Undefined
    /\ RegExpCompiles(compiledCharacterRegex)
    /\ failedAtCompile(regexCalls, compiledCharacterRegex, compiledCharacterRegex)
    /\ cursor.ch > 0

\* the handlers of the scope that accept a suggestion, the host's or the custom one
acceptBindings ==
    {i \in 1..Len(scopeKeys) : scopeKeys[i].action \in {"hostAccept", "useSelectedItem"}}

enterBindings == {i \in 1..Len(scopeKeys) : scopeKeys[i].key = "Enter"}

\* C14: after construction the host's default accept handler on Enter is gone
\* from the scope for good: the only handler that accepts a suggestion is the
\* registration the controller holds, and when the insertion key is Enter the
\* scope has exactly one Enter handler, that registration. The host's other
\* handlers stay.
C14_DefaultEnterEvicted ==
    /\ \A i \in 1..Len(scopeKeys) : scopeKeys[i].action # "hostAccept"
    /\ Cardinality(acceptBindings) = 1
    /\ \A i \in acceptBindings : scopeKeys[i].id = insertionKeybindRegistration
    /\ settings.insertionKey = "Enter" =>
           /\ Cardinality(enterBindings) = 1
           /\ enterBindings = acceptBindings
    /\ settings.insertionKey # "Enter" => enterBindings = {}
    /\ \A k \in 1..Len(HostScopeKeys) :
           HostScopeKeys[k].action # "hostAccept" =>
               \E i \in 1..Len(scopeKeys) : scopeKeys[i] = HostScopeKeys[k]

\* the insertion key is Enter again after it was bound to another key
C14_Witness ==
    /\ settings.insertionKey = "Enter"
    /\ insertionKeybindRegistration > Len(HostScopeKeys) + 1
    /\ \E i \in enterBindings : scopeKeys[i].id = insertionKeybindRegistration

\* the last collection returned through the short-circuit: the provider called
\* last is flagged and the accumulated list is not empty
shortCircuitFired ==
    /\ collectOutcome = "returned"
    /\ consulted # <<>>
    /\ blocksAllOtherProviders[consulted[Len(consulted)].provider]
    /\ suggestions # <<>>

\* the override starts the candidates of a list carry
overridesOf(list) ==
    {list[i].overrideStart : i \in {j \in 1..Len(list) : hasOverrideStart(list[j])}}

\* the context the last trigger event returned
triggerContext ==
    [start |-> triggerResult.start, end |-> triggerResult.end,
     query |-> triggerResult.query]

\* C15: when the short-circuit fires, the context start becomes an override start
\* of a candidate of the blocking provider that fired, and stays the start the
\* trigger detected when none of that provider's candidates carries one; override
\* starts of candidates from earlier providers do not move it.
C15_OverrideOfBlockingSource ==
    shortCircuitFired =>
        LET own == overridesOf(answerOf(Len(consulted)).list)
        IN  IF own # {}
            THEN context.start \in own
            ELSE context.start = triggerResult.start

\* C16: a flagged provider that returns no candidate does not end the
\* collection: the provider after it in the list is called, also when earlier
\* providers have contributed candidates.
C16_EmptyBlockingSourceDoesNotSuppress ==
    collectOutcome = "returned" =>
        \A k \in 1..Len(consulted) :
            (/\ blocksAllOtherProviders[consulted[k].provider]
             /\ answerOf(k).list = <<>>
             /\ consulted[k].provider < Len(PROVIDERS))
            => k < Len(consulted)

\* C17: when a collection ends without the short-circuit (it called every
\* provider and returned candidates, or a provider threw), the context start, end
\* and query are the ones the trigger event returned, whatever override starts
\* the candidates carry.
C17_ContextUntouchedWithoutShortCircuit ==
    (/\ collectOutcome # "none"
     /\ ~shortCircuitFired
     /\ suggestions # <<>> \/ collectOutcome = "threw")
    => context = triggerContext

\* every provider was called, a flagged one among them, the short-circuit did
\* not fire, and a returned candidate carries an override start other than the
\* trigger start
C17_Witness ==
    /\ collectOutcome = "returned"
    /\ ~shortCircuitFired
    /\ Len(consulted) = Len(PROVIDERS)
    /\ blocksAllOtherProviders[1]
    /\ \E i \in 1..Len(suggestions) :
          /\ hasOverrideStart(suggestions[i])
          /\ suggestions[i].overrideStart # triggerResult.start
    /\ context = triggerContext

\* C18: a trigger event that returns a context returns one that ends at the
\* cursor and starts on the cursor's line, Len(query) columns before it: the
\* start is not behind the end nor before the line start, and the query is the
\* text between them. The separator stored is the one of that same scan: the
\* character just before the start, which the configured class does not match,
\* or the empty one when the scan ended at the line start or at the look-back
\* limit.
C18_TriggerContextShape ==
    [][(triggerStep /\ triggerResult'.kind = "info") =>
              LET start == triggerResult'.start
                  end == triggerResult'.end
                  query == triggerResult'.query
              IN  /\ end = cursor'
                  /\ start.line = cursor'.line
                  /\ start.ch = cursor'.ch - Len(query)
                  /\ 0 <= start.ch
                  /\ start.ch <= end.ch
                  /\ end.ch - start.ch = Len(query)
                  /\ query = textBetween(doc', start.ch, end.ch)
                  /\ context' = [start |-> start, end |-> end, query |-> query]
                  /\ IF start.ch = 0 \/ Len(query) >= settings.maxLookBackDistance
                     THEN separatorChar' = NoSeparator
                     ELSE /\ separatorChar' = doc'[start.ch]
                          /\ ~RegExpTest(settings.characterRegex,
                                         separatorChar')]_vars

\* a trigger context for a word of one character typed behind a separator, which
\* the same scan stored
C18_Witness ==
    /\ triggerResult.kind = "info"
    /\ Len(triggerResult.query) = 1
    /\ triggerResult.start.ch = 1
    /\ triggerResult.end = cursor
    /\ separatorChar = "B"
    /\ doc[1] = "B"

\* the separator of the scan that returned the last trigger context: the
\* character just before its start, or the empty one at the line start or at the
\* look-back limit
separatorOfTrigger ==
    IF \/ triggerResult.start.ch = 0
       \/ Len(triggerResult.query) >= settings.maxLookBackDistance
    THEN NoSeparator
    ELSE doc[triggerResult.start.ch]

\* C19: every provider called in a collection receives the start, end and query
\* the trigger event returned, with the separator that trigger event stored, so
\* all providers of a collection receive the same context and none sees a start
\* moved by an override; and a suppressed trigger event leaves the stored
\* separator as the last trigger event that was not suppressed left it.
C19_UniformSourceInput ==
    /\ [](\A k \in 1..Len(consulted) :
             /\ triggerResult.kind = "info"
             /\ consulted[k].start = triggerResult.start
             /\ consulted[k].end = triggerResult.end
             /\ consulted[k].query = triggerResult.query
             /\ consulted[k].separatorChar = separatorChar
             /\ consulted[k].separatorChar = separatorOfTrigger)
    /\ [][(justClosed /\ triggerStep) =>
                 /\ triggerResult'.kind = "null"
                 /\ separatorChar' = separatorChar]_vars

\* a collection ended by the short-circuit moved the context start to an
\* override, after two providers had received the trigger start and the
\* separator "B"
C19_Witness ==
    /\ shortCircuitFired
    /\ Len(consulted) = 2
    /\ context.start # triggerResult.start
    /\ separatorChar = "B"
    /\ consulted[1].separatorChar = "B"
    /\ consulted[2].start = triggerResult.start

\* a step of selectSuggestion
acceptStep == \E k \in 1..Len(suggestions) : selectSuggestion(k)

\* C20: the latch is set only by an acceptance or by preventNextTrigger, both
\* of which leave it set, and cleared only by a trigger event. A trigger event
\* is suppressed exactly when it finds the latch set; it then clears the latch,
\* calls no matcher, compiles nothing and leaves the separator alone. Every
\* trigger event leaves the latch clear, so however often the latch was set
\* before it, the trigger event that follows a suppressed one without an
\* acceptance or preventNextTrigger call between them is not suppressed.
C20_OneShotLatch ==
    [][/\ (~justClosed /\ justClosed') => (acceptStep \/ preventNextTrigger)
       /\ (acceptStep \/ preventNextTrigger) => justClosed'
       /\ (justClosed /\ ~justClosed') => triggerStep
       /\ triggerStep =>
              /\ ~justClosed'
              /\ triggerResult'.kind = "null" <=> justClosed
              /\ justClosed =>
                     /\ regexCalls' = <<>>
                     /\ UNCHANGED <<separatorChar, characterRegex,
                                    compiledCharacterRegex, bindingVars, settings>>
                     /\ popup' = "Idle"
              /\ (triggerResult.kind = "null" /\ ~justClosed) =>
                     triggerResult'.kind # "null"]_vars

\* the trigger event after an acceptance was suppressed: the latch is clear
\* again, no matcher was called, and the separator is still the one an earlier
\* trigger event stored
C20_Witness ==
    /\ triggerResult.kind = "null"
    /\ ~justClosed
    /\ sinceAccept.events = 1
    /\ regexCalls = <<>>
    /\ popup = "Idle"
    /\ separatorChar = "B"

====
